---- MODULE Spec2Model ----
(***************************************************************************)
(* Usage accounting, quota enforcement, presets and the connection pool   *)
(* of the Project Bootstrapper API (src/src/db.py, src/src/services.py,    *)
(* src/src/main.py).                                                       *)
(*                                                                         *)
(* The storage engine is MySQL/InnoDB reached through pymysql with         *)
(* autocommit=False (db.py:30): the first read on a connection opens a     *)
(* transaction with a consistent-read snapshot, which stays until commit.  *)
(* A write statement works on the latest committed rows and holds its row  *)
(* lock until the commit that directly follows it in every code path, so   *)
(* "write; commit" is one step of the model.                               *)
(***************************************************************************)
EXTENDS Integers, Sequences, FiniteSets, TLC

\* ---------------------------------------------------------------- bounds
NumUsers == 1
NumThreads == 2
NumPoolThreads == 6
NumLiveThreads == 3
MaxDay == 3
DaysPerMonth == 2
MaxLimit == 2
NumOwners == 2
MaxPresets == 2

\* ------------------------------------------------------ program constants
POOL_MIN == 1
POOL_MAX == 5

ALLOWED_FREE_TEMPLATES == {"flask", "fastapi", "basic-python"}

\* ------------------------------------------------------------- domains
Threads == 1..NumThreads
PoolThreads == 1..NumPoolThreads
LiveThreads == 1..NumLiveThreads
SeqThreads == {1}
AllThreads == Threads \cup PoolThreads
UserIds == 1..NumUsers
Days == 0..MaxDay
\* header values: 0 is an absent (or empty) X-API-Key, NumUsers+1 matches no user
Keys == 0..(NumUsers + 1)
Templates == ALLOWED_FREE_TEMPLATES \cup {"django"}
\* connection objects: the pooled ones, and per worker one direct (fallback)
\* connection for each get_conn it can be inside of at once
MaxDepth == 2
ConnIds == 1..(POOL_MIN + MaxDepth * Cardinality(AllThreads))

NoSnap == {[id |-> 0, user_id |-> 0, log_date |-> 0, calls_today |-> 0, projects_this_month |-> 0]}
NoPresetSnap == {[id |-> 0, user_id |-> 0, name |-> "", template |-> "", git_init |-> 0,
                  use_venv |-> 0, license_type |-> ""]}
NoPool == <<0>>

\* presets: the columns update_preset may be given, and the values of each
PresetFields == {"name", "template", "git_init", "use_venv", "license_type"}
PresetValues ==
    [name : {"p1"}, template : {"flask", "fastapi"}, git_init : {0, 1}, use_venv : {0, 1},
     license_type : {""}]
DefaultValues == [name |-> "p1", template |-> "flask", git_init |-> 0, use_venv |-> 0,
                  license_type |-> ""]
Owners == 1..NumOwners
PresetIds == 1..MaxPresets
\* the dict `data`: its keys, and under vals the value of each key
DataDicts ==
    UNION {{[keys |-> ks, vals |-> v] :
               v \in {w \in PresetValues : \A f \in PresetFields \ ks : w[f] = DefaultValues[f]}} :
           ks \in SUBSET PresetFields}
NoData == [keys |-> {}, vals |-> DefaultValues]

VARIABLES
    today,          \* date.today()
    DAILY_LIMIT,    \* main.py: API_RATE_LIMIT_PER_DAY
    MONTH_LIMIT,    \* main.py: API_PROJECTS_PER_MONTH
    users,          \* table users
    usage_logs,     \* table usage_logs (committed rows)
    presets,        \* table presets (committed rows)
    lastPresetId,   \* AUTO_INCREMENT counter of presets.id
    pool,           \* db._pool: NoPool before init_pool, else the queue
    conns,          \* every connection object: state and open transaction
    pc,             \* position of each worker
    op,             \* storage operation the worker runs
    caller,         \* where the worker continues when the operation returns
    held,           \* connections the worker holds: <<[id, borrowed]>>
    req,            \* the HTTP request the worker serves
    argu,           \* user_id argument of the running operation
    argd,           \* today / for_date of the running operation
    argp,           \* preset_id argument of the running operation
    data,           \* data argument of update_preset
    r,              \* row fetched by the operation's SELECT
    total,          \* SUM fetched by increment_project_and_check_limit
    ret,            \* what the last operation returned
    status,         \* HTTP status of the worker's last response
    nAcq,           \* history: get_conn calls made for the current request
    pre,            \* history: usage_logs when the handler last called the storage layer
    nAllowed,       \* history: calls allowed per (user, day)
    nProjAllowed    \* history: project creations allowed per (user, month)

vars == <<today, DAILY_LIMIT, MONTH_LIMIT, users, usage_logs, presets, lastPresetId, pool, conns,
          pc, op, caller, held, req, argu, argd, argp, data, r, total, ret, status, nAcq, pre,
          nAllowed, nProjAllowed>>

dbVars == <<users, usage_logs, presets, lastPresetId>>
cfgVars == <<DAILY_LIMIT, MONTH_LIMIT>>
histVars == <<nAllowed, nProjAllowed>>

\* ------------------------------------------------------------- calendar
MonthOf(d) == d \div DaysPerMonth
Months == 0..MonthOf(MaxDay)
\* date(today.year, today.month, 1)
FirstOfMonth(d) == d - (d % DaysPerMonth)

\* ------------------------------------------------------------- tables
NewRow(tbl, u, d, c, p) ==
    [id |-> Cardinality(tbl) + 1, user_id |-> u, log_date |-> d,
     calls_today |-> c, projects_this_month |-> p]

\* usage_logs ... UNIQUE(user_id, log_date)
UniqueViolation(tbl, u, d) == \E x \in tbl : x.user_id = u /\ x.log_date = d

\* variant: the SELECT leaves out the date and finds the user's oldest row
SelectRow_AnyDate(tbl, u, d) ==
    LET m == {x \in tbl : x.user_id = u}
    IN  IF m = {} THEN {} ELSE {CHOOSE x \in m : \A y \in m : x.id <= y.id}

\* SELECT ... WHERE user_id=%s AND log_date=%s ; fetchone()
SelectRow(tbl, u, d) ==
    LET m == {x \in tbl : x.user_id = u /\ x.log_date = d}
    IN  IF m = {} THEN {} ELSE {CHOOSE x \in m : \A y \in m : x.id <= y.id}

RECURSIVE SumProjects(_)
SumProjects(rows) ==
    IF rows = {} THEN 0
    ELSE LET x == CHOOSE y \in rows : TRUE
         IN  x.projects_this_month + SumProjects(rows \ {x})

\* variant: the sum is taken over all of the user's rows, whatever their date
SelectMonthTotal_AllDates(tbl, u, first) ==
    SumProjects({x \in tbl : x.user_id = u})

\* SELECT SUM(projects_this_month) ... WHERE user_id=%s AND log_date >= %s ; total or 0
SelectMonthTotal(tbl, u, first) ==
    SumProjects({x \in tbl : x.user_id = u /\ x.log_date >= first})

\* UPDATE usage_logs SET calls_today=calls_today+1 WHERE id=%s
UpdateCalls(tbl, rid) ==
    {IF x.id = rid THEN [x EXCEPT !.calls_today = @ + 1] ELSE x : x \in tbl}

\* UPDATE usage_logs SET projects_this_month=projects_this_month+1 WHERE id=%s
UpdateProjects(tbl, rid) ==
    {IF x.id = rid THEN [x EXCEPT !.projects_this_month = @ + 1] ELSE x : x \in tbl}

\* SELECT * FROM users WHERE api_key=%s ; fetchone() -> the user's id, 0 for None
SelectUser(tbl, key) ==
    IF \E x \in tbl : x.api_key = key
    THEN (CHOOSE x \in tbl : x.api_key = key).id
    ELSE 0

\* -------------------------------------------------------- connections
FreeConn == [st |-> "free", snap |-> NoSnap, psnap |-> NoPresetSnap]
OpenConn == [st |-> "open", snap |-> NoSnap, psnap |-> NoPresetSnap]

\* the object a direct _create_connection() by worker t yields: no live connection
Fresh(t) == POOL_MIN + MaxDepth * (t - 1) + Len(held[t]) + 1

Top(t) == held[t][Len(held[t])]
Pop(t) == SubSeq(held[t], 1, Len(held[t]) - 1)

\* what a consistent read on connection c sees of usage_logs and of presets
View(c) == IF conns[c].snap = NoSnap THEN usage_logs ELSE conns[c].snap
PresetView(c) == IF conns[c].psnap = NoPresetSnap THEN presets ELSE conns[c].psnap

\* a read statement on c: the transaction and its snapshot begin if none is open
AfterRead(c) == [conns EXCEPT ![c].snap = View(c), ![c].psnap = PresetView(c)]
\* conn.commit()
AfterCommit(c) == [conns EXCEPT ![c].snap = NoSnap, ![c].psnap = NoPresetSnap]

\* ------------------------------------------------- values an operation returns
Returned(v) == [err |-> FALSE, val |-> v]
Raised == [err |-> TRUE, val |-> 0]
\* the server's answer to a statement it cannot parse (error 1064)
ProgrammingError == [err |-> TRUE, val |-> 1064]
True == Returned(1)
False == Returned(0)
None == Returned(0)

\* a call of a storage operation: the worker enters `with get_conn() as conn`
Call(t, f, u, d, k) ==
    /\ op' = [op EXCEPT ![t] = f]
    /\ argu' = [argu EXCEPT ![t] = u]
    /\ argd' = [argd EXCEPT ![t] = d]
    /\ argp' = [argp EXCEPT ![t] = 0]
    /\ data' = [data EXCEPT ![t] = NoData]
    /\ caller' = [caller EXCEPT ![t] = k]
    /\ r' = [r EXCEPT ![t] = {}]
    /\ total' = [total EXCEPT ![t] = 0]
    /\ pc' = [pc EXCEPT ![t] = "get_conn"]

\* the with-blocks of the running operation that enclose the worker's position
Outer(t) == IF pc[t] = "release" THEN Len(held[t]) - 1 ELSE Len(held[t])

\* control leaves a with-block with result v (a value or an exception).  Inside
\* an enclosing with-block (update_preset around its call of get_preset) the
\* enclosing block's finally comes next.  Otherwise control goes back to the
\* caller: a direct caller keeps nothing of the call, a request handler reads
\* the result in its next step.
Return(t, v) ==
    IF Outer(t) > 0
    THEN /\ pc' = [pc EXCEPT ![t] = "release"]
         /\ ret' = [ret EXCEPT ![t] = v]
         /\ UNCHANGED <<op, argu, argd, argp, data, r, total>>
    ELSE /\ pc' = [pc EXCEPT ![t] = caller[t]]
         /\ r' = [r EXCEPT ![t] = {}]
         /\ total' = [total EXCEPT ![t] = 0]
         /\ argp' = [argp EXCEPT ![t] = 0]
         /\ data' = [data EXCEPT ![t] = NoData]
         /\ IF caller[t] = "idle"
            THEN /\ ret' = [ret EXCEPT ![t] = None]
                 /\ op' = [op EXCEPT ![t] = ""]
                 /\ argu' = [argu EXCEPT ![t] = 0]
                 /\ argd' = [argd EXCEPT ![t] = 0]
            ELSE /\ ret' = [ret EXCEPT ![t] = v]
                 /\ UNCHANGED <<op, argu, argd>>

\* an exception leaves get_conn before its yield: nothing to release
RaiseToCaller(t) == Return(t, Raised)

callVars == <<op, argu, argd, argp, data, caller, nAcq>>
NoRequest == [kind |-> "", key |-> 0, template |-> "", user |-> 0]

\* the worker's response leaves; it is free for the next request
Respond(t, code) ==
    /\ status' = [status EXCEPT ![t] = code]
    /\ pc' = [pc EXCEPT ![t] = "idle"]
bodyVars == <<r, total>>

\* ------------------------------------------------------------ db.py
\* _create_connection(): pymysql.connect either returns a new open connection
\* or raises.  (db.py:27 passes db=MYSQL_DB, a name the module never binds; the
\* module binds MYSQLDATABASE.  The model takes the outcome of the call as the
\* environment's choice.)
CreateOutcomes == BOOLEAN

\* init_pool(): under _pool_lock, a Queue(maxsize=POOL_MAX) filled with POOL_MIN connections
init_pool ==
    /\ pool = NoPool
    /\ POOL_MIN <= POOL_MAX
    /\ pool' = [i \in 1..POOL_MIN |-> i]
    /\ conns' = [c \in ConnIds |-> IF c <= POOL_MIN THEN OpenConn ELSE conns[c]]

\* lifespan(app): init_pool() at start-up
lifespan ==
    /\ init_pool
    /\ UNCHANGED <<today, cfgVars, dbVars, pc, callVars, held, req, bodyVars, ret, status,
                   pre, histVars>>

\* get_conn(), db.py:47-48: `if _pool is None: init_pool()`
get_conn_init(t) ==
    /\ pc[t] = "get_conn"
    /\ pool = NoPool
    /\ \E created \in CreateOutcomes :
         IF created
         THEN /\ init_pool
              /\ UNCHANGED <<pc, ret, op, argu, argd, argp, data, bodyVars>>
         ELSE /\ RaiseToCaller(t)
              /\ UNCHANGED <<pool, conns>>
    /\ UNCHANGED <<today, cfgVars, dbVars, caller, nAcq, held, req, status, pre, histVars>>

\* variant: the head of the queue is handed out but stays in the queue
get_conn_get_peek(t) ==
    /\ pc[t] = "get_conn"
    /\ pool # NoPool
    /\ Len(pool) > 0
    /\ held' = [held EXCEPT ![t] = Append(@, [id |-> Head(pool), borrowed |-> TRUE])]
    /\ pc' = [pc EXCEPT ![t] = "yield"]
    /\ UNCHANGED <<today, cfgVars, dbVars, pool, conns, callVars, req, bodyVars, ret, status, pre,
                   histVars>>

\* get_conn(), db.py:49-50 and 55-56: _pool.get(block=True, timeout=5) hands out the head
get_conn_get(t) ==
    /\ pc[t] = "get_conn"
    /\ pool # NoPool
    /\ Len(pool) > 0
    /\ held' = [held EXCEPT ![t] = Append(@, [id |-> Head(pool), borrowed |-> TRUE])]
    /\ pool' = Tail(pool)
    /\ pc' = [pc EXCEPT ![t] = "yield"]
    /\ UNCHANGED <<today, cfgVars, dbVars, conns, callVars, req, bodyVars, ret, status, pre,
                   histVars>>

\* variant: _pool.get(block=True) without a timeout keeps waiting on the empty queue
get_conn_no_timeout(t) ==
    /\ pc[t] = "get_conn"
    /\ pool # NoPool
    /\ Len(pool) = 0
    /\ UNCHANGED vars

\* variant: the direct connection is marked borrowed, so release puts it in the queue
get_conn_timeout_borrowed(t) ==
    /\ pc[t] = "get_conn"
    /\ pool # NoPool
    /\ Len(pool) = 0
    /\ \E created \in CreateOutcomes :
         IF created
         THEN /\ held' = [held EXCEPT ![t] = Append(@, [id |-> Fresh(t), borrowed |-> TRUE])]
              /\ conns' = [conns EXCEPT ![Fresh(t)] = OpenConn]
              /\ pc' = [pc EXCEPT ![t] = "yield"]
              /\ UNCHANGED <<ret, op, argu, argd, argp, data, bodyVars>>
         ELSE /\ RaiseToCaller(t)
              /\ UNCHANGED <<held, conns>>
    /\ UNCHANGED <<today, cfgVars, dbVars, pool, caller, nAcq, req, status, pre, histVars>>

\* get_conn(), db.py:51-54: the queue stayed empty for the timeout, open a direct connection
get_conn_timeout(t) ==
    /\ pc[t] = "get_conn"
    /\ pool # NoPool
    /\ Len(pool) = 0
    /\ \E created \in CreateOutcomes :
         IF created
         THEN /\ held' = [held EXCEPT ![t] = Append(@, [id |-> Fresh(t), borrowed |-> FALSE])]
              /\ conns' = [conns EXCEPT ![Fresh(t)] = OpenConn]
              /\ pc' = [pc EXCEPT ![t] = "yield"]
              /\ UNCHANGED <<ret, op, argu, argd, argp, data, bodyVars>>
         ELSE /\ RaiseToCaller(t)
              /\ UNCHANGED <<held, conns>>
    /\ UNCHANGED <<today, cfgVars, dbVars, pool, caller, nAcq, req, status, pre, histVars>>

\* get_conn(), db.py:59-74: the finally block, then the operation returns or re-raises.
\* A replacement for a dead connection is a new object (it takes the discarded one's slot);
\* an exception of the replacement's _create_connection() is swallowed (db.py:73-74).
get_conn_release(t) ==
    /\ pc[t] = "release"
    /\ LET h == Top(t) IN
         IF h.borrowed
         THEN IF conns[h.id].st = "open"
              THEN /\ Len(pool) < POOL_MAX
                   /\ pool' = Append(pool, h.id)
                   /\ UNCHANGED conns
              ELSE \E created \in CreateOutcomes :
                     IF created
                     THEN /\ Len(pool) < POOL_MAX
                          /\ pool' = Append(pool, h.id)
                          /\ conns' = [conns EXCEPT ![h.id] = OpenConn]
                     ELSE /\ conns' = [conns EXCEPT ![h.id] = FreeConn]
                          /\ UNCHANGED pool
         ELSE /\ conns' = [conns EXCEPT ![h.id] = FreeConn]
              /\ UNCHANGED pool
    /\ held' = [held EXCEPT ![t] = Pop(t)]
    /\ Return(t, ret[t])
    /\ UNCHANGED <<today, cfgVars, dbVars, caller, nAcq, req, status, pre, histVars>>

\* --------------------------------------------------------- services.py
Conn(t) == Top(t).id

\* INSERT INTO usage_logs (user_id, log_date, calls_today, projects_this_month)
\* VALUES (u, d, c, p); conn.commit().  The UNIQUE key makes a second row for
\* (u, d) an IntegrityError, which leaves the transaction open.
Insert(t, c, p, result) ==
    IF UniqueViolation(usage_logs, argu[t], argd[t])
    THEN /\ ret' = [ret EXCEPT ![t] = Raised]
         /\ UNCHANGED <<usage_logs, conns>>
    ELSE /\ usage_logs' = usage_logs \cup {NewRow(usage_logs, argu[t], argd[t], c, p)}
         /\ conns' = AfterCommit(Conn(t))
         /\ ret' = [ret EXCEPT ![t] = result]

\* get_user_by_api_key(api_key), services.py:17-21 (argu carries api_key)
get_user_by_api_key(t) ==
    /\ pc[t] = "yield"
    /\ op[t] = "get_user_by_api_key"
    /\ conns' = AfterRead(Conn(t))
    /\ ret' = [ret EXCEPT ![t] = Returned(SelectUser(users, argu[t]))]
    /\ pc' = [pc EXCEPT ![t] = "release"]
    /\ UNCHANGED <<today, cfgVars, dbVars, pool, callVars, held, req, bodyVars, status, pre,
                   histVars>>

\* variant: the INSERT is issued whether or not the SELECT found a row
ensure_usage_row_select_always_insert(t) ==
    /\ pc[t] = "yield"
    /\ op[t] = "ensure_usage_row"
    /\ r' = [r EXCEPT ![t] = SelectRow(View(Conn(t)), argu[t], argd[t])]
    /\ pc' = [pc EXCEPT ![t] = "insert"]
    /\ conns' = AfterRead(Conn(t))
    /\ UNCHANGED <<today, cfgVars, dbVars, pool, callVars, held, req, total, ret, status, pre,
                   histVars>>

\* ensure_usage_row(user_id, for_date), services.py:27-29
ensure_usage_row_select(t) ==
    /\ pc[t] = "yield"
    /\ op[t] = "ensure_usage_row"
    /\ LET row == SelectRow(View(Conn(t)), argu[t], argd[t]) IN
         /\ r' = [r EXCEPT ![t] = row]
         /\ IF row = {}
            THEN /\ pc' = [pc EXCEPT ![t] = "insert"]
                 /\ UNCHANGED ret
            ELSE /\ pc' = [pc EXCEPT ![t] = "release"]
                 /\ ret' = [ret EXCEPT ![t] = None]
    /\ conns' = AfterRead(Conn(t))
    /\ UNCHANGED <<today, cfgVars, dbVars, pool, callVars, held, req, total, status, pre,
                   histVars>>

\* ensure_usage_row, services.py:30-32
ensure_usage_row_insert(t) ==
    /\ pc[t] = "insert"
    /\ op[t] = "ensure_usage_row"
    /\ Insert(t, 0, 0, None)
    /\ pc' = [pc EXCEPT ![t] = "release"]
    /\ UNCHANGED <<today, cfgVars, users, presets, lastPresetId, pool, callVars, held, req, bodyVars, status, pre,
                   histVars>>

\* variant: the check compares the count before the increment
OverDailyLimit_BeforeIncrement(row, daily_limit) == row.calls_today > daily_limit

\* services.py:46: r['calls_today'] + 1 > daily_limit
OverDailyLimit(row, daily_limit) == row.calls_today + 1 > daily_limit

\* variant: the UPDATE is issued (and committed) before the limit is compared
increment_call_and_check_limit_select_counting(t) ==
    /\ pc[t] = "yield"
    /\ op[t] = "increment_call_and_check_limit"
    /\ LET row == SelectRow(View(Conn(t)), argu[t], argd[t]) IN
         /\ r' = [r EXCEPT ![t] = row]
         /\ IF row = {}
            THEN /\ pc' = [pc EXCEPT ![t] = "insert"]
                 /\ conns' = AfterRead(Conn(t))
                 /\ UNCHANGED <<ret, usage_logs>>
            ELSE IF \E x \in row : x.calls_today + 1 > DAILY_LIMIT
                 THEN /\ pc' = [pc EXCEPT ![t] = "release"]
                      /\ ret' = [ret EXCEPT ![t] = False]
                      /\ usage_logs' = UpdateCalls(usage_logs, (CHOOSE x \in row : TRUE).id)
                      /\ conns' = AfterCommit(Conn(t))
                 ELSE /\ pc' = [pc EXCEPT ![t] = "update"]
                      /\ conns' = AfterRead(Conn(t))
                      /\ UNCHANGED <<ret, usage_logs>>
    /\ UNCHANGED <<today, cfgVars, users, presets, lastPresetId, pool, callVars, held, req, total, status, pre,
                   histVars>>

\* increment_call_and_check_limit(user_id, daily_limit), services.py:40-42 and 46-47
increment_call_and_check_limit_select(t) ==
    /\ pc[t] = "yield"
    /\ op[t] = "increment_call_and_check_limit"
    /\ LET row == SelectRow(View(Conn(t)), argu[t], argd[t]) IN
         /\ r' = [r EXCEPT ![t] = row]
         /\ IF row = {}
            THEN /\ pc' = [pc EXCEPT ![t] = "insert"]
                 /\ UNCHANGED ret
            ELSE IF \E x \in row : OverDailyLimit(x, DAILY_LIMIT)
                 THEN /\ pc' = [pc EXCEPT ![t] = "release"]
                      /\ ret' = [ret EXCEPT ![t] = False]
                 ELSE /\ pc' = [pc EXCEPT ![t] = "update"]
                      /\ UNCHANGED ret
    /\ conns' = AfterRead(Conn(t))
    /\ UNCHANGED <<today, cfgVars, dbVars, pool, callVars, held, req, total, status, pre,
                   histVars>>

CountAllowed(t) ==
    nAllowed' = IF ret'[t] = True
                THEN [nAllowed EXCEPT ![argu[t]][argd[t]] = @ + 1]
                ELSE nAllowed

\* variant: the limit is compared before the first row of the day is inserted
increment_call_and_check_limit_insert_checked(t) ==
    /\ pc[t] = "insert"
    /\ op[t] = "increment_call_and_check_limit"
    /\ IF 1 > DAILY_LIMIT
       THEN /\ ret' = [ret EXCEPT ![t] = False]
            /\ UNCHANGED <<usage_logs, conns>>
       ELSE Insert(t, 1, 0, True)
    /\ CountAllowed(t)
    /\ pc' = [pc EXCEPT ![t] = "release"]
    /\ UNCHANGED <<today, cfgVars, users, presets, lastPresetId, pool, callVars, held, req, bodyVars, status, pre,
                   nProjAllowed>>

\* increment_call_and_check_limit, services.py:43-45
increment_call_and_check_limit_insert(t) ==
    /\ pc[t] = "insert"
    /\ op[t] = "increment_call_and_check_limit"
    /\ Insert(t, 1, 0, True)
    /\ CountAllowed(t)
    /\ pc' = [pc EXCEPT ![t] = "release"]
    /\ UNCHANGED <<today, cfgVars, users, presets, lastPresetId, pool, callVars, held, req, bodyVars, status, pre,
                   nProjAllowed>>

\* variant: the UPDATE writes the count that the SELECT read, plus one
increment_call_and_check_limit_update_from_read(t) ==
    /\ pc[t] = "update"
    /\ op[t] = "increment_call_and_check_limit"
    /\ LET row == CHOOSE x \in r[t] : TRUE IN
         usage_logs' = {IF x.id = row.id THEN [x EXCEPT !.calls_today = row.calls_today + 1]
                        ELSE x : x \in usage_logs}
    /\ conns' = AfterCommit(Conn(t))
    /\ ret' = [ret EXCEPT ![t] = True]
    /\ CountAllowed(t)
    /\ pc' = [pc EXCEPT ![t] = "release"]
    /\ UNCHANGED <<today, cfgVars, users, presets, lastPresetId, pool, callVars, held, req,
                   bodyVars, status, pre, nProjAllowed>>

\* increment_call_and_check_limit, services.py:48-50
increment_call_and_check_limit_update(t) ==
    /\ pc[t] = "update"
    /\ op[t] = "increment_call_and_check_limit"
    /\ usage_logs' = UpdateCalls(usage_logs, (CHOOSE x \in r[t] : TRUE).id)
    /\ conns' = AfterCommit(Conn(t))
    /\ ret' = [ret EXCEPT ![t] = True]
    /\ CountAllowed(t)
    /\ pc' = [pc EXCEPT ![t] = "release"]
    /\ UNCHANGED <<today, cfgVars, users, presets, lastPresetId, pool, callVars, held, req, bodyVars, status, pre,
                   nProjAllowed>>

\* services.py:62: total + 1 > month_limit
OverMonthLimit(sum, month_limit) == sum + 1 > month_limit

\* increment_project_and_check_limit(user_id, month_limit), services.py:59-63
increment_project_and_check_limit_sum(t) ==
    /\ pc[t] = "yield"
    /\ op[t] = "increment_project_and_check_limit"
    /\ LET sum == SelectMonthTotal(View(Conn(t)), argu[t], FirstOfMonth(argd[t])) IN
         /\ total' = [total EXCEPT ![t] = sum]
         /\ IF OverMonthLimit(sum, MONTH_LIMIT)
            THEN /\ pc' = [pc EXCEPT ![t] = "release"]
                 /\ ret' = [ret EXCEPT ![t] = False]
            ELSE /\ pc' = [pc EXCEPT ![t] = "select"]
                 /\ UNCHANGED ret
    /\ conns' = AfterRead(Conn(t))
    /\ UNCHANGED <<today, cfgVars, dbVars, pool, callVars, held, req, r, status, pre, histVars>>

\* increment_project_and_check_limit, services.py:65-67
increment_project_and_check_limit_select(t) ==
    /\ pc[t] = "select"
    /\ op[t] = "increment_project_and_check_limit"
    /\ LET row == SelectRow(View(Conn(t)), argu[t], argd[t]) IN
         /\ r' = [r EXCEPT ![t] = row]
         /\ pc' = [pc EXCEPT ![t] = IF row = {} THEN "insert" ELSE "update"]
    /\ conns' = AfterRead(Conn(t))
    /\ UNCHANGED <<today, cfgVars, dbVars, pool, callVars, held, req, total, ret, status, pre,
                   histVars>>

CountProjAllowed(t) ==
    nProjAllowed' = IF ret'[t] = True
                    THEN [nProjAllowed EXCEPT ![argu[t]][MonthOf(argd[t])] = @ + 1]
                    ELSE nProjAllowed

\* increment_project_and_check_limit, services.py:68 and 71-72
increment_project_and_check_limit_insert(t) ==
    /\ pc[t] = "insert"
    /\ op[t] = "increment_project_and_check_limit"
    /\ Insert(t, 0, 1, True)
    /\ CountProjAllowed(t)
    /\ pc' = [pc EXCEPT ![t] = "release"]
    /\ UNCHANGED <<today, cfgVars, users, presets, lastPresetId, pool, callVars, held, req, bodyVars, status, pre,
                   nAllowed>>

\* increment_project_and_check_limit, services.py:70-72
increment_project_and_check_limit_update(t) ==
    /\ pc[t] = "update"
    /\ op[t] = "increment_project_and_check_limit"
    /\ usage_logs' = UpdateProjects(usage_logs, (CHOOSE x \in r[t] : TRUE).id)
    /\ conns' = AfterCommit(Conn(t))
    /\ ret' = [ret EXCEPT ![t] = True]
    /\ CountProjAllowed(t)
    /\ pc' = [pc EXCEPT ![t] = "release"]
    /\ UNCHANGED <<today, cfgVars, users, presets, lastPresetId, pool, callVars, held, req, bodyVars, status, pre,
                   nAllowed>>

\* ------------------------------------------------- services.py, presets
\* set_clause = ','.join(fields), services.py:100-106: the number of assignments
\* in "UPDATE presets SET {set_clause} WHERE ..."
SetClause(dt) == Cardinality(dt.keys)

\* UPDATE presets SET k1=v1,... WHERE id=%s AND user_id=%s
UpdatePresets(tbl, u, p, dt) ==
    {IF x.id = p /\ x.user_id = u
     THEN [f \in DOMAIN x |-> IF f \in dt.keys THEN dt.vals[f] ELSE x[f]]
     ELSE x : x \in tbl}

\* SELECT * FROM presets WHERE id=%s AND user_id=%s
SelectPreset(tbl, u, p) == {x \in tbl : x.id = p /\ x.user_id = u}

\* SELECT * FROM presets WHERE user_id=%s
SelectPresets(tbl, u) == {x \in tbl : x.user_id = u}

\* DELETE FROM presets WHERE id=%s AND user_id=%s
DeletePreset(tbl, u, p) == {x \in tbl : ~(x.id = p /\ x.user_id = u)}

\* a worker calls one preset operation of services.py
CallPreset(t, f, u, p, dt) ==
    /\ op' = [op EXCEPT ![t] = f]
    /\ argu' = [argu EXCEPT ![t] = u]
    /\ argp' = [argp EXCEPT ![t] = p]
    /\ data' = [data EXCEPT ![t] = dt]
    /\ caller' = [caller EXCEPT ![t] = "idle"]
    /\ pc' = [pc EXCEPT ![t] = "get_conn"]

call_preset(t) ==
    /\ pc[t] = "idle"
    /\ \/ \E u \in Owners, v \in PresetValues :
            /\ lastPresetId < MaxPresets
            /\ CallPreset(t, "create_preset", u, 0, [keys |-> PresetFields, vals |-> v])
       \/ \E u \in Owners : CallPreset(t, "list_presets", u, 0, NoData)
       \/ \E u \in Owners, p \in PresetIds : CallPreset(t, "get_preset", u, p, NoData)
       \/ \E u \in Owners, p \in PresetIds, dt \in DataDicts :
            CallPreset(t, "update_preset", u, p, dt)
       \/ \E u \in Owners, p \in PresetIds : CallPreset(t, "delete_preset", u, p, NoData)
    /\ UNCHANGED <<today, cfgVars, dbVars, pool, conns, held, req, argd, bodyVars, ret, status,
                   nAcq, pre, histVars>>

\* create_preset, services.py:75-82: INSERT, commit, then the row is read back
create_preset(t) ==
    /\ pc[t] = "yield"
    /\ op[t] = "create_preset"
    /\ LET row == [id |-> lastPresetId + 1, user_id |-> argu[t],
                   name |-> data[t].vals.name, template |-> data[t].vals.template,
                   git_init |-> data[t].vals.git_init, use_venv |-> data[t].vals.use_venv,
                   license_type |-> data[t].vals.license_type] IN
         /\ presets' = presets \cup {row}
         /\ lastPresetId' = lastPresetId + 1
         /\ r' = [r EXCEPT ![t] = {row}]
         /\ conns' = [conns EXCEPT ![Conn(t)].snap = usage_logs, ![Conn(t)].psnap = presets']
    /\ ret' = [ret EXCEPT ![t] = True]
    /\ pc' = [pc EXCEPT ![t] = "release"]
    /\ UNCHANGED <<today, cfgVars, users, usage_logs, pool, callVars, held, req, total, status,
                   pre, histVars>>

\* list_presets, services.py:85-89
list_presets(t) ==
    /\ pc[t] = "yield"
    /\ op[t] = "list_presets"
    /\ r' = [r EXCEPT ![t] = SelectPresets(PresetView(Conn(t)), argu[t])]
    /\ conns' = AfterRead(Conn(t))
    /\ ret' = [ret EXCEPT ![t] = True]
    /\ pc' = [pc EXCEPT ![t] = "release"]
    /\ UNCHANGED <<today, cfgVars, dbVars, pool, callVars, held, req, total, status, pre,
                   histVars>>

\* get_preset, services.py:92-96, called directly or by update_preset (services.py:111)
get_preset(t) ==
    /\ pc[t] = "yield"
    /\ \/ op[t] = "get_preset" /\ Len(held[t]) = 1
       \/ op[t] = "update_preset" /\ Len(held[t]) = 2
    /\ LET rows == SelectPreset(PresetView(Conn(t)), argu[t], argp[t]) IN
         /\ r' = [r EXCEPT ![t] = rows]
         /\ ret' = [ret EXCEPT ![t] = IF rows = {} THEN None ELSE True]
    /\ conns' = AfterRead(Conn(t))
    /\ pc' = [pc EXCEPT ![t] = "release"]
    /\ UNCHANGED <<today, cfgVars, dbVars, pool, callVars, held, req, total, status, pre,
                   histVars>>

\* update_preset, services.py:99-111: the UPDATE and commit; with no key in data
\* the statement reads "UPDATE presets SET  WHERE ...", which the server rejects
\* (ProgrammingError); otherwise get_preset is called inside the with-block
update_preset(t) ==
    /\ pc[t] = "yield"
    /\ op[t] = "update_preset"
    /\ Len(held[t]) = 1
    /\ IF SetClause(data[t]) = 0
       THEN /\ ret' = [ret EXCEPT ![t] = ProgrammingError]
            /\ pc' = [pc EXCEPT ![t] = "release"]
            /\ UNCHANGED <<presets, conns>>
       ELSE /\ presets' = UpdatePresets(presets, argu[t], argp[t], data[t])
            /\ conns' = AfterCommit(Conn(t))
            /\ pc' = [pc EXCEPT ![t] = "get_conn"]
            /\ UNCHANGED ret
    /\ UNCHANGED <<today, cfgVars, users, usage_logs, lastPresetId, pool, callVars, held, req,
                   bodyVars, status, pre, histVars>>

\* delete_preset, services.py:114-119
delete_preset(t) ==
    /\ pc[t] = "yield"
    /\ op[t] = "delete_preset"
    /\ presets' = DeletePreset(presets, argu[t], argp[t])
    /\ conns' = AfterCommit(Conn(t))
    /\ ret' = [ret EXCEPT ![t] = IF presets' # presets THEN True ELSE False]
    /\ pc' = [pc EXCEPT ![t] = "release"]
    /\ UNCHANGED <<today, cfgVars, users, usage_logs, lastPresetId, pool, callVars, held, req,
                   bodyVars, status, pre, histVars>>

\* ------------------------------------------------------------- main.py
Requests ==
    {[kind |-> "templates", key |-> k, template |-> "", user |-> 0] : k \in Keys}
    \cup {[kind |-> kd, key |-> k, template |-> tp, user |-> 0] :
             kd \in {"create", "create-and-download"}, k \in Keys, tp \in Templates}

\* a request arrives; require_api_key, main.py:113-116
require_api_key(t) ==
    /\ pc[t] = "idle"
    /\ \E q \in Requests :
         /\ req' = [req EXCEPT ![t] = q]
         /\ IF q.key = 0
            THEN /\ Respond(t, 401)
                 /\ nAcq' = [nAcq EXCEPT ![t] = 0]
                 /\ op' = [op EXCEPT ![t] = ""]
                 /\ argu' = [argu EXCEPT ![t] = 0]
                 /\ argd' = [argd EXCEPT ![t] = 0]
                 /\ UNCHANGED <<argp, data, caller, bodyVars>>
            ELSE /\ Call(t, "get_user_by_api_key", q.key, today, "require_api_key_user")
                 /\ nAcq' = [nAcq EXCEPT ![t] = 1]
                 /\ status' = [status EXCEPT ![t] = 0]
    /\ ret' = [ret EXCEPT ![t] = None]
    /\ pre' = [pre EXCEPT ![t] = usage_logs]
    /\ UNCHANGED <<today, cfgVars, dbVars, pool, conns, held, histVars>>

\* require_api_key, main.py:116-120: the lookup returned; today is read at services.py:36
require_api_key_user(t) ==
    /\ pc[t] = "require_api_key_user"
    /\ IF ret[t].err
       THEN /\ Respond(t, 500)
            /\ UNCHANGED <<req, callVars, bodyVars>>
       ELSE IF ret[t] = None
            THEN /\ Respond(t, 401)
                 /\ UNCHANGED <<req, callVars, bodyVars>>
            ELSE /\ req' = [req EXCEPT ![t].user = ret[t].val]
                 /\ Call(t, "increment_call_and_check_limit", ret[t].val, today,
                         "require_api_key_ok")
                 /\ nAcq' = [nAcq EXCEPT ![t] = @ + 1]
                 /\ UNCHANGED status
    /\ pre' = [pre EXCEPT ![t] = usage_logs]
    /\ UNCHANGED <<today, cfgVars, dbVars, pool, conns, held, ret, histVars>>

\* variant: the result of the quota check is not looked at
require_api_key_ok_unchecked(t) ==
    /\ pc[t] = "require_api_key_ok"
    /\ IF ret[t].err
       THEN Respond(t, 500)
       ELSE /\ pc' = [pc EXCEPT ![t] = "endpoint"]
            /\ UNCHANGED status
    /\ UNCHANGED <<today, cfgVars, dbVars, pool, conns, held, req, callVars, bodyVars, ret, pre,
                   histVars>>

\* require_api_key, main.py:120-123: the quota check returned
require_api_key_ok(t) ==
    /\ pc[t] = "require_api_key_ok"
    /\ IF ret[t].err
       THEN Respond(t, 500)
       ELSE IF ret[t] = False
            THEN Respond(t, 429)
            ELSE /\ pc' = [pc EXCEPT ![t] = "endpoint"]
                 /\ UNCHANGED status
    /\ UNCHANGED <<today, cfgVars, dbVars, pool, conns, held, req, callVars, bodyVars, ret, pre,
                   histVars>>

\* list_templates, main.py:138-141
list_templates(t) ==
    /\ pc[t] = "endpoint"
    /\ req[t].kind = "templates"
    /\ Respond(t, 200)
    /\ UNCHANGED <<today, cfgVars, dbVars, pool, conns, held, req, callVars, bodyVars, ret, pre,
                   histVars>>

\* variant: the monthly check is called without looking at the template
create_project_template_unchecked(t) ==
    /\ Call(t, "increment_project_and_check_limit", req[t].user, today, "create_project_ok")
    /\ nAcq' = [nAcq EXCEPT ![t] = @ + 1]
    /\ UNCHANGED status
    /\ pre' = [pre EXCEPT ![t] = usage_logs]
    /\ UNCHANGED <<today, cfgVars, dbVars, pool, conns, held, req, ret, histVars>>

\* the body of create_project up to its monthly check, main.py:177-181
create_project_template_check(t) ==
    /\ IF req[t].template \notin ALLOWED_FREE_TEMPLATES
       THEN /\ Respond(t, 403)
            /\ UNCHANGED <<callVars, bodyVars>>
       ELSE /\ Call(t, "increment_project_and_check_limit", req[t].user, today,
                    "create_project_ok")
            /\ nAcq' = [nAcq EXCEPT ![t] = @ + 1]
            /\ UNCHANGED status
    /\ pre' = [pre EXCEPT ![t] = usage_logs]
    /\ UNCHANGED <<today, cfgVars, dbVars, pool, conns, held, req, ret, histVars>>

\* POST /create: create_project, main.py:175-181
create_project(t) ==
    /\ pc[t] = "endpoint"
    /\ req[t].kind = "create"
    /\ create_project_template_check(t)

\* POST /create-and-download: create_and_download, main.py:223-226, calls
\* create_project(req, download=True, user=user)
create_and_download(t) ==
    /\ pc[t] = "endpoint"
    /\ req[t].kind = "create-and-download"
    /\ create_project_template_check(t)

\* create_project, main.py:181-220: the monthly check returned; the project is generated
create_project_ok(t) ==
    /\ pc[t] = "create_project_ok"
    /\ IF ret[t].err
       THEN Respond(t, 500)
       ELSE IF ret[t] = False
            THEN Respond(t, 429)
            ELSE Respond(t, 200)
    /\ UNCHANGED <<today, cfgVars, dbVars, pool, conns, held, req, callVars, bodyVars, ret, pre,
                   histVars>>

\* ------------------------------------------- callers of the storage layer
Services == {"ensure_usage_row", "increment_call_and_check_limit",
             "increment_project_and_check_limit"}

\* a worker calls one quota operation of services.py directly
call_service(t) ==
    /\ pc[t] = "idle"
    /\ \E f \in Services, u \in UserIds : Call(t, f, u, today, "idle")
    /\ UNCHANGED <<today, cfgVars, dbVars, pool, conns, held, req, ret, status, nAcq, pre,
                   histVars>>

\* a worker runs `with get_conn() as conn: ...` around any body
scoped_call(t) ==
    /\ pc[t] = "idle"
    /\ Call(t, "scoped", 0, 0, "idle")
    /\ UNCHANGED <<today, cfgVars, dbVars, pool, conns, held, req, ret, status, nAcq, pre,
                   histVars>>

\* the body ends by returning or raising; the server may have dropped the
\* connection meanwhile (conn.open is False at db.py:63)
scoped_body(t) ==
    /\ pc[t] = "yield"
    /\ op[t] = "scoped"
    /\ \E dies \in BOOLEAN, raises \in BOOLEAN :
         /\ conns' = IF dies THEN [conns EXCEPT ![Conn(t)].st = "dead"] ELSE conns
         /\ ret' = [ret EXCEPT ![t] = IF raises THEN Raised ELSE None]
    /\ pc' = [pc EXCEPT ![t] = "release"]
    /\ UNCHANGED <<today, cfgVars, dbVars, pool, callVars, held, req, bodyVars, status, pre,
                   histVars>>

\* midnight: date.today() moves on
Tick ==
    /\ today < MaxDay
    /\ today' = today + 1
    /\ UNCHANGED <<cfgVars, dbVars, pool, conns, pc, callVars, held, req, bodyVars, ret, status,
                   pre, histVars>>

\* ------------------------------------------------------- specifications
Init ==
    /\ today = 0
    /\ DAILY_LIMIT \in 0..MaxLimit
    /\ MONTH_LIMIT \in 0..MaxLimit
    /\ users = {[id |-> u, api_key |-> u] : u \in UserIds}
    /\ usage_logs = {}
    /\ presets = {}
    /\ lastPresetId = 0
    /\ pool = NoPool
    /\ conns = [c \in ConnIds |-> FreeConn]
    /\ pc = [t \in AllThreads |-> "idle"]
    /\ op = [t \in AllThreads |-> ""]
    /\ caller = [t \in AllThreads |-> "idle"]
    /\ held = [t \in AllThreads |-> <<>>]
    /\ req = [t \in AllThreads |-> NoRequest]
    /\ argu = [t \in AllThreads |-> 0]
    /\ argd = [t \in AllThreads |-> 0]
    /\ argp = [t \in AllThreads |-> 0]
    /\ data = [t \in AllThreads |-> NoData]
    /\ r = [t \in AllThreads |-> {}]
    /\ total = [t \in AllThreads |-> 0]
    /\ ret = [t \in AllThreads |-> None]
    /\ status = [t \in AllThreads |-> 0]
    /\ nAcq = [t \in AllThreads |-> 0]
    /\ pre = [t \in AllThreads |-> {}]
    /\ nAllowed = [u \in UserIds |-> [d \in Days |-> 0]]
    /\ nProjAllowed = [u \in UserIds |-> [m \in Months |-> 0]]

\* workers call the quota operations concurrently, all on one day
Next ==
    \/ \E t \in Threads :
         \/ call_service(t)
         \/ get_conn_init(t)
         \/ get_conn_get(t)
         \/ get_conn_timeout(t)
         \/ ensure_usage_row_select(t)
         \/ ensure_usage_row_insert(t)
         \/ increment_call_and_check_limit_select(t)
         \/ increment_call_and_check_limit_insert(t)
         \/ increment_call_and_check_limit_update(t)
         \/ increment_project_and_check_limit_sum(t)
         \/ increment_project_and_check_limit_select(t)
         \/ increment_project_and_check_limit_insert(t)
         \/ increment_project_and_check_limit_update(t)
         \/ get_conn_release(t)

Spec == Init /\ [][Next]_vars

\* one worker serves HTTP requests one after another
NextSeq ==
    \/ lifespan
    \/ \E t \in SeqThreads :
         \/ require_api_key(t)
         \/ require_api_key_user(t)
         \/ require_api_key_ok(t)
         \/ list_templates(t)
         \/ create_project(t)
         \/ create_and_download(t)
         \/ create_project_ok(t)
         \/ get_conn_init(t)
         \/ get_conn_get(t)
         \/ get_user_by_api_key(t)
         \/ increment_call_and_check_limit_select(t)
         \/ increment_call_and_check_limit_insert(t)
         \/ increment_call_and_check_limit_update(t)
         \/ increment_project_and_check_limit_sum(t)
         \/ increment_project_and_check_limit_select(t)
         \/ increment_project_and_check_limit_insert(t)
         \/ increment_project_and_check_limit_update(t)
         \/ get_conn_release(t)
    \/ Tick

SpecSeq == Init /\ [][NextSeq]_vars

\* workers use the pool around arbitrary bodies
NextPool ==
    \/ lifespan
    \/ \E t \in PoolThreads :
         \/ scoped_call(t)
         \/ get_conn_init(t)
         \/ get_conn_get(t)
         \/ get_conn_timeout(t)
         \/ scoped_body(t)
         \/ get_conn_release(t)

\* the quota limits play no part in the pool
InitPool == Init /\ DAILY_LIMIT = MaxLimit /\ MONTH_LIMIT = MaxLimit

SpecPool == InitPool /\ [][NextPool]_vars

\* the steps of get_conn() up to its yield
acquire(t) == get_conn_init(t) \/ get_conn_get(t) \/ get_conn_timeout(t)

NextLive ==
    \/ lifespan
    \/ \E t \in LiveThreads :
         \/ scoped_call(t)
         \/ get_conn_init(t)
         \/ get_conn_get(t)
         \/ get_conn_timeout(t)
         \/ scoped_body(t)
         \/ get_conn_release(t)

\* A worker inside get_conn() keeps running: Queue.get returns when a connection
\* is there or its timeout of 5 expires, and pymysql.connect returns or raises.
\* Nothing makes a worker that holds a connection ever finish its body.
SpecLive == InitPool /\ [][NextLive]_vars /\ \A t \in LiveThreads : WF_vars(acquire(t))

\* one worker calls the quota operations one after another, day after day
NextDays ==
    \/ \E t \in SeqThreads :
         \/ call_service(t)
         \/ get_conn_init(t)
         \/ get_conn_get(t)
         \/ ensure_usage_row_select(t)
         \/ ensure_usage_row_insert(t)
         \/ increment_call_and_check_limit_select(t)
         \/ increment_call_and_check_limit_insert(t)
         \/ increment_call_and_check_limit_update(t)
         \/ increment_project_and_check_limit_sum(t)
         \/ increment_project_and_check_limit_select(t)
         \/ increment_project_and_check_limit_insert(t)
         \/ increment_project_and_check_limit_update(t)
         \/ get_conn_release(t)
    \/ Tick

SpecDays == Init /\ [][NextDays]_vars

\* one worker calls the preset operations one after another
NextPreset ==
    \/ lifespan
    \/ \E t \in SeqThreads :
         \/ call_preset(t)
         \/ get_conn_init(t)
         \/ get_conn_get(t)
         \/ get_conn_timeout(t)
         \/ create_preset(t)
         \/ list_presets(t)
         \/ get_preset(t)
         \/ update_preset(t)
         \/ delete_preset(t)
         \/ get_conn_release(t)

SpecPreset == InitPool /\ [][NextPreset]_vars

\* ================================================================ claims
\* worker t has run operation f up to its return statement
AtReturn(t, f) == pc[t] = "release" /\ op[t] = f
TheRow(t) == CHOOSE x \in r[t] : TRUE

\* C1: of the calls of increment_call_and_check_limit that workers issue
\* concurrently for one user on one day, never more than dailyLimit return
\* allowed (stated for dailyLimit >= 1, where the first call of the day fits).
C1_AtMostNAllowed ==
    \A u \in UserIds, d \in Days : DAILY_LIMIT >= 1 => nAllowed[u][d] <= DAILY_LIMIT

\* C2 as stated: with requests served one after another, a call through the
\* gate is allowed exactly when fewer than dailyLimit calls of that user were
\* allowed that day, and a rejected call is answered 429.
C2_FirstNAllowed ==
    \A t \in SeqThreads :
        /\ (AtReturn(t, "increment_call_and_check_limit") /\ ~ret[t].err) =>
              IF ret[t] = True
              THEN nAllowed[argu[t]][argd[t]] <= DAILY_LIMIT
              ELSE nAllowed[argu[t]][argd[t]] >= DAILY_LIMIT
        /\ (pc[t] = "idle" /\ op[t] = "increment_call_and_check_limit" /\ ~ret[t].err) =>
              (ret[t] = False <=> status[t] = 429)

\* C2 amended: for dailyLimit >= 1, with requests served one after another, a
\* call through the gate is allowed exactly when fewer than dailyLimit calls of
\* that user were allowed that day, and a rejected call is answered 429.
C2_FirstNAllowedFromOne ==
    \A t \in SeqThreads :
        /\ (AtReturn(t, "increment_call_and_check_limit") /\ ~ret[t].err /\ DAILY_LIMIT >= 1) =>
              IF ret[t] = True
              THEN nAllowed[argu[t]][argd[t]] <= DAILY_LIMIT
              ELSE nAllowed[argu[t]][argd[t]] >= DAILY_LIMIT
        /\ (pc[t] = "idle" /\ op[t] = "increment_call_and_check_limit" /\ ~ret[t].err) =>
              (ret[t] = False <=> status[t] = 429)

\* call N+1 of a day was answered 429 after N >= 1 allowed calls
C2_Witness ==
    \E t \in SeqThreads :
        /\ pc[t] = "idle" /\ status[t] = 429
        /\ op[t] = "increment_call_and_check_limit"
        /\ DAILY_LIMIT >= 1
        /\ nAllowed[argu[t]][argd[t]] = DAILY_LIMIT

\* C3: when the SELECT finds no row for (user, today), the operation returns
\* true whatever dailyLimit is, and the table is the one before the call plus
\* one row for (user, today) with calls_today = 1 and projects_this_month = 0.
C3_FirstCallInserts ==
    \A t \in SeqThreads :
        (AtReturn(t, "increment_call_and_check_limit") /\ r[t] = {}) =>
            /\ ret[t] = True
            /\ \E x \in usage_logs :
                 /\ x.user_id = argu[t] /\ x.log_date = argd[t]
                 /\ x.calls_today = 1 /\ x.projects_this_month = 0
                 /\ x \notin pre[t]
                 /\ usage_logs = pre[t] \cup {x}
            /\ \A y \in pre[t] : ~(y.user_id = argu[t] /\ y.log_date = argd[t])

\* the first call of a day was allowed with dailyLimit = 0
C3_Witness ==
    \E t \in SeqThreads :
        /\ AtReturn(t, "increment_call_and_check_limit") /\ r[t] = {}
        /\ DAILY_LIMIT = 0
        /\ ret[t] = True

\* C4: with today's row present, the daily operation returns false and leaves
\* the table as it was when calls_today + 1 > dailyLimit, and otherwise returns
\* true with that row's calls_today one higher and nothing else changed; the
\* monthly operation leaves the table as it was when it returns false.
C4_RejectedNotCounted ==
    \A t \in SeqThreads :
        /\ (AtReturn(t, "increment_call_and_check_limit") /\ r[t] # {}) =>
              /\ TheRow(t) \in pre[t]
              /\ IF TheRow(t).calls_today + 1 > DAILY_LIMIT
                 THEN ret[t] = False /\ usage_logs = pre[t]
                 ELSE /\ ret[t] = True
                      /\ usage_logs = (pre[t] \ {TheRow(t)})
                            \cup {[TheRow(t) EXCEPT !.calls_today = @ + 1]}
        /\ (AtReturn(t, "increment_project_and_check_limit") /\ ret[t] = False) =>
              usage_logs = pre[t]

\* a call was rejected on the daily axis with today's row present
C4_Witness ==
    \E t \in SeqThreads :
        /\ AtReturn(t, "increment_call_and_check_limit") /\ r[t] # {}
        /\ ret[t] = False
        /\ TheRow(t).calls_today = DAILY_LIMIT

\* the user's rows of the calendar month that day d lies in
RowsOfMonth(tbl, u, d) == {x \in tbl : x.user_id = u /\ MonthOf(x.log_date) = MonthOf(d)}

\* C5: with requests served one after another, the monthly operation reads
\* the sum of projects_this_month over the user's rows of the current calendar
\* month, never raises, and returns allowed exactly when fewer than monthLimit
\* creations of that user were allowed in that month.
C5_FirstMAllowedPerMonth ==
    \A t \in SeqThreads :
        /\ AtReturn(t, "increment_project_and_check_limit") =>
              /\ ~ret[t].err
              /\ IF ret[t] = True
                 THEN nProjAllowed[argu[t]][MonthOf(argd[t])] <= MONTH_LIMIT
                 ELSE nProjAllowed[argu[t]][MonthOf(argd[t])] >= MONTH_LIMIT
        /\ (op[t] = "increment_project_and_check_limit" /\ pc[t] = "select") =>
              total[t] = SumProjects(RowsOfMonth(pre[t], argu[t], argd[t]))

\* creation M+1 is rejected with the month's M creations spread over two days
\* and a row of the previous month holding creations of its own
C5_Witness ==
    \E t \in SeqThreads :
        /\ AtReturn(t, "increment_project_and_check_limit") /\ ret[t] = False
        /\ MONTH_LIMIT >= 1
        /\ \E x, y \in RowsOfMonth(usage_logs, argu[t], argd[t]) :
             /\ x.log_date # y.log_date
             /\ x.projects_this_month >= 1 /\ y.projects_this_month >= 1
        /\ \E z \in usage_logs :
             /\ z.user_id = argu[t] /\ MonthOf(z.log_date) < MonthOf(argd[t])
             /\ z.projects_this_month >= 1

\* C6: of the calls of increment_project_and_check_limit that workers issue
\* concurrently for one user in one calendar month, never more than monthLimit
\* return allowed.
C6_AtMostMAllowed ==
    \A u \in UserIds, m \in Months : nProjAllowed[u][m] <= MONTH_LIMIT

C8_GateOrder ==
    \A t \in SeqThreads :
        /\ pc[t] = "endpoint" =>
              /\ req[t].key # 0
              /\ [id |-> req[t].user, api_key |-> req[t].key] \in users
              /\ op[t] = "increment_call_and_check_limit" /\ argu[t] = req[t].user
              /\ ret[t] = True
              /\ nAcq[t] = 2
        /\ (pc[t] = "idle" /\ req[t].kind # "" /\ req[t].key = 0) =>
              (status[t] = 401 /\ nAcq[t] = 0)
        /\ (pc[t] = "idle" /\ req[t].key # 0 /\ SelectUser(users, req[t].key) = 0) =>
              /\ status[t] = IF ret[t].err THEN 500 ELSE 401
              /\ nAcq[t] = 1
              /\ usage_logs = pre[t]
        /\ (pc[t] = "idle" /\ status[t] = 401 /\ req[t].key # 0) =>
              SelectUser(users, req[t].key) = 0
        /\ (pc[t] = "idle" /\ op[t] = "increment_call_and_check_limit" /\ ~ret[t].err) =>
              (ret[t] = False <=> (status[t] = 429 /\ nAcq[t] = 2))

\* a request has passed the gate
C8_Witness ==
    \E t \in SeqThreads : pc[t] = "endpoint" /\ req[t].kind = "create"

\* connections of the pool: those idle in the queue and those handed out from it
Borrowed(t) == {i \in 1..Len(held[t]) : held[t][i].borrowed}
RECURSIVE CountBorrowed(_)
CountBorrowed(ts) ==
    IF ts = {} THEN 0
    ELSE LET t == CHOOSE x \in ts : TRUE
         IN  Cardinality(Borrowed(t)) + CountBorrowed(ts \ {t})

\* C9: the queue never holds more than POOL_MAX connections, and neither do
\* the queue and the connections borrowed from it together.
C9_PoolWithinMax ==
    pool # NoPool =>
        /\ Len(pool) <= POOL_MAX
        /\ Len(pool) + CountBorrowed(PoolThreads) <= POOL_MAX

\* a broken pooled connection was released and its replacement could not be
\* opened (nothing is left in the queue or borrowed), and a worker is on a
\* direct connection after the timeout
C9_Witness ==
    /\ pool # NoPool /\ Len(pool) = 0
    /\ CountBorrowed(PoolThreads) = 0
    /\ \E t \in PoolThreads : held[t] # <<>> /\ ~Top(t).borrowed

\* C10: no connection is held by two workers (or twice by one), and no held
\* connection is in the queue.
C10_NoSharedConnection ==
    /\ \A t1, t2 \in PoolThreads :
         \A i \in 1..Len(held[t1]), j \in 1..Len(held[t2]) :
            held[t1][i].id = held[t2][j].id => (t1 = t2 /\ i = j)
    /\ pool # NoPool =>
         \A t \in PoolThreads : \A i \in 1..Len(held[t]), k \in 1..Len(pool) :
            held[t][i].id # pool[k]
    /\ pool # NoPool =>
         \A k, l \in 1..Len(pool) : pool[k] = pool[l] => k = l

\* two workers hold connections at once, one of them the pooled connection
C10_Witness ==
    \E t1, t2 \in PoolThreads :
        /\ t1 # t2
        /\ held[t1] # <<>> /\ Top(t1).borrowed
        /\ held[t2] # <<>> /\ ~Top(t2).borrowed

\* C11: a worker that entered get_conn() leaves it, holding a connection at the
\* yield or with an exception at its caller, whatever the other workers do;
\* when it leaves with the queue empty, the connection it holds is a new one
\* that is not marked borrowed.
C11_AcquireEnds ==
    /\ \A t \in LiveThreads : (pc[t] = "get_conn") ~> (pc[t] = "yield" \/ pc[t] = "idle")
    /\ [][\A t \in LiveThreads :
            (pc[t] = "get_conn" /\ pc'[t] = "yield" /\ pool # NoPool /\ Len(pool) = 0)
            => /\ ~Top(t)'.borrowed
               /\ conns[Top(t)'.id].st = "free"
               /\ conns'[Top(t)'.id].st = "open"
               /\ pool' = pool]_vars

\* a worker got a direct connection at the yield while another worker is in its
\* body with the pooled connection and the queue is empty
C11_Witness ==
    \E t1, t2 \in LiveThreads :
        /\ pc[t1] = "yield" /\ Top(t1).borrowed
        /\ pc[t2] = "yield" /\ ~Top(t2).borrowed
        /\ pool # NoPool /\ Len(pool) = 0

PresetOps == {"create_preset", "list_presets", "get_preset", "update_preset", "delete_preset"}
\* worker t is at the return statement of preset operation f, in its one with-block
AtPresetReturn(t, f) == pc[t] = "release" /\ Len(held[t]) = 1 /\ op[t] = f
\* the presets that the user of worker t's operation does not own
Foreign(tbl, t) == {x \in tbl : x.user_id # argu[t]}

\* C12, first part: no preset operation invoked as A returns a preset of another
\* user, and no step of it changes, adds or removes one.
C12_Isolation ==
    /\ [](\A t \in SeqThreads :
            (pc[t] = "release" /\ op[t] \in PresetOps) => \A x \in r[t] : x.user_id = argu[t])
    /\ [][\A t \in SeqThreads :
            op[t] \in PresetOps => Foreign(presets', t) = Foreign(presets, t)]_vars

\* C12, second part: update and delete aimed at an id that the caller does not
\* own or that does not exist leave presets as it is and report not-found
\* (update_preset returns None, delete_preset returns False), unless no
\* connection could be had.
C12_NotFound ==
    /\ [](\A t \in SeqThreads :
            (AtPresetReturn(t, "update_preset") /\ SelectPreset(presets, argu[t], argp[t]) = {})
            => (ret[t] \in {None, Raised} /\ r[t] = {}))
    /\ [][\A t \in SeqThreads :
            (/\ pc[t] = "yield" /\ pc'[t] # "yield" /\ Len(held[t]) = 1
             /\ op[t] \in {"update_preset", "delete_preset"}
             /\ SelectPreset(presets, argu[t], argp[t]) = {})
            => /\ presets' = presets
               /\ op[t] = "delete_preset" => ret'[t] = False]_vars

\* C12: for any sequence of preset operations of two users, list, get, update
\* and delete invoked as A never return and never change a preset owned by B,
\* and update and delete aimed at a preset id that is not owned by the caller
\* or does not exist report not-found and leave every preset unchanged.
C12_OwnerScoped == C12_Isolation /\ C12_NotFound

\* row x after an update that supplies the keys of dt with the values of dt
Updated(x, dt) == [f \in DOMAIN x |-> IF f \in dt.keys THEN dt.vals[f] ELSE x[f]]

\* C13: update_preset called by the owner with any subset of the fields sets
\* exactly the supplied fields of that preset to the supplied values, leaves
\* its other fields, its id and user_id and every other preset as they were,
\* and returns the row as it is after the update (unless no connection could
\* be had for reading it back).
C13_PartialUpdate ==
    /\ [][\A t \in SeqThreads :
            (/\ op[t] = "update_preset" /\ pc[t] = "yield" /\ pc'[t] # "yield"
             /\ Len(held[t]) = 1)
            => \A x \in SelectPreset(presets, argu[t], argp[t]) :
                 LET y == Updated(x, data[t]) IN
                   /\ y.id = x.id /\ y.user_id = x.user_id
                   /\ \A f \in PresetFields \ data[t].keys : y[f] = x[f]
                   /\ \A f \in data[t].keys : y[f] = data[t].vals[f]
                   /\ presets' = (presets \ {x}) \cup {y}]_vars
    /\ [](\A t \in SeqThreads :
            (AtPresetReturn(t, "update_preset") /\ SelectPreset(presets, argu[t], argp[t]) # {})
            => /\ ret[t] \in {True, Raised}
               /\ ret[t] = True =>
                    /\ r[t] = SelectPreset(presets, argu[t], argp[t])
                    /\ \A x \in r[t] : \A f \in data[t].keys : x[f] = data[t].vals[f])

\* the second part of C13 for a data dict with at least one key
C13_NonEmptyUpdate ==
    [](\A t \in SeqThreads :
        (/\ AtPresetReturn(t, "update_preset") /\ SelectPreset(presets, argu[t], argp[t]) # {}
         /\ SetClause(data[t]) > 0)
        => /\ ret[t] \in {True, Raised}
           /\ ret[t] = True =>
                /\ r[t] = SelectPreset(presets, argu[t], argp[t])
                /\ \A x \in r[t] : \A f \in data[t].keys : x[f] = data[t].vals[f])

\* C14: the body of a with-block, returning or raising, is followed by the
\* release and nothing else; the release takes the connection from the worker;
\* a connection borrowed from the queue is put back or a new one is put in its
\* place; a direct connection is closed and is not put in the queue; a worker
\* whose operation has ended holds no connection.
C14_ReleasedOnEveryPath ==
    /\ [](\A t \in PoolThreads : pc[t] = "idle" => held[t] = <<>>)
    /\ [][\A t \in PoolThreads :
            /\ (pc[t] = "yield" /\ pc'[t] # "yield") => pc'[t] = "release"
            /\ (pc[t] = "release" /\ pc'[t] # "release") =>
                 /\ held'[t] = Pop(t)
                 /\ IF Top(t).borrowed
                    THEN /\ Len(pool') = Len(pool) + 1
                         /\ conns'[pool'[Len(pool')]].st = "open"
                    ELSE /\ pool' = pool
                         /\ conns'[Top(t).id].st = "free"
                         /\ \A k \in 1..Len(pool') : pool'[k] # Top(t).id]_vars

\* C15: once the pool is initialised, the connections idle in the queue and
\* those borrowed from it are together as many as init_pool put in.
C15_PoolSizeConstant ==
    pool # NoPool => Len(pool) + CountBorrowed(PoolThreads) = POOL_MIN

\* C16: no operation holds more than one connection, and no worker that holds
\* a connection is inside get_conn() asking for another.
C16_OneConnectionPerOperation ==
    \A t \in SeqThreads :
        /\ Len(held[t]) <= 1
        /\ pc[t] = "get_conn" => held[t] = <<>>

\* C17: a connection idle in the queue has no open transaction, hence no read
\* snapshot left by the operation that used it last.
C17_NoOpenTransactionInPool ==
    pool # NoPool =>
        \A k \in 1..Len(pool) :
            conns[pool[k]].snap = NoSnap /\ conns[pool[k]].psnap = NoPresetSnap

\* C18: under every interleaving of the quota operations, each row's
\* calls_today is the number of increment_call_and_check_limit calls for its
\* user and day that returned true (none where there is no row), and the
\* projects_this_month of a user's rows of a month add up to the number of
\* increment_project_and_check_limit calls for that month that returned true;
\* a call that raises is in neither count and has written nothing.
C18_ExactlyOnceCounting ==
    /\ \A u \in UserIds, d \in Days :
         LET rows == {x \in usage_logs : x.user_id = u /\ x.log_date = d} IN
           /\ \A x \in rows : x.calls_today = nAllowed[u][d]
           /\ rows = {} => nAllowed[u][d] = 0
    /\ \A u \in UserIds, m \in Months :
         SumProjects({x \in usage_logs : x.user_id = u /\ MonthOf(x.log_date) = m})
            = nProjAllowed[u][m]

\* two calls that overlapped are both at their return, both allowed, and the
\* day's row counts the two
C18_Witness ==
    \E t1, t2 \in Threads :
        /\ t1 # t2
        /\ AtReturn(t1, "increment_call_and_check_limit") /\ ret[t1] = True
        /\ AtReturn(t2, "increment_call_and_check_limit") /\ ret[t2] = True
        /\ \E x \in usage_logs : x.calls_today = 2

\* user u has used up day d: a call for that day is rejected
Exhausted(u, d) ==
    \E x \in usage_logs : x.user_id = u /\ x.log_date = d /\ OverDailyLimit(x, DAILY_LIMIT)
\* user u is at the monthly limit in month m
AtMonthLimit(u, m) ==
    SumProjects({x \in usage_logs : x.user_id = u /\ MonthOf(x.log_date) = m}) >= MONTH_LIMIT
\* the call at its return is the first of its day (month) that was not rejected before
FirstCallOfDay(t) == nAllowed[argu[t]][argd[t]] = IF ret[t] = True THEN 1 ELSE 0
FirstProjectOfMonth(t) == nProjAllowed[argu[t]][MonthOf(argd[t])] = IF ret[t] = True THEN 1 ELSE 0

\* C19 as stated: after a day d that the user has used up, the first call of
\* day d+1 is allowed and counted from a row that it creates; after a month m
\* in which the user is at the monthly limit, the first project creation of
\* month m+1 is allowed.
C19_ResetAtBoundary ==
    \A t \in SeqThreads :
        /\ (/\ AtReturn(t, "increment_call_and_check_limit") /\ ~ret[t].err
            /\ argd[t] >= 1 /\ Exhausted(argu[t], argd[t] - 1)
            /\ FirstCallOfDay(t))
           => (ret[t] = True /\ r[t] = {})
        /\ (/\ AtReturn(t, "increment_project_and_check_limit") /\ ~ret[t].err
            /\ MonthOf(argd[t]) >= 1 /\ AtMonthLimit(argu[t], MonthOf(argd[t]) - 1)
            /\ FirstProjectOfMonth(t))
           => ret[t] = True

\* C19 amended: with dailyLimit >= 1, after a day d that the user has used up,
\* the first call of day d+1 is allowed, counted from a row that it creates or
\* from the day's row that another operation created with calls_today = 0; with
\* monthLimit >= 1, after a month m in which the user is at the monthly limit,
\* the first project creation of month m+1 is allowed.
C19_ResetAtBoundaryFromOne ==
    \A t \in SeqThreads :
        /\ (/\ AtReturn(t, "increment_call_and_check_limit") /\ ~ret[t].err
            /\ argd[t] >= 1 /\ Exhausted(argu[t], argd[t] - 1)
            /\ FirstCallOfDay(t)
            /\ DAILY_LIMIT >= 1)
           => /\ ret[t] = True
              /\ \A x \in r[t] : x.calls_today = 0
        /\ (/\ AtReturn(t, "increment_project_and_check_limit") /\ ~ret[t].err
            /\ MonthOf(argd[t]) >= 1 /\ AtMonthLimit(argu[t], MonthOf(argd[t]) - 1)
            /\ FirstProjectOfMonth(t)
            /\ MONTH_LIMIT >= 1)
           => ret[t] = True

\* the first project creation of a month is allowed although the month before
\* ended at its limit, on a day whose first call was allowed from a new row
\* although the day before was used up
C19_Witness ==
    \E t \in SeqThreads :
        /\ AtReturn(t, "increment_project_and_check_limit") /\ ret[t] = True
        /\ DAILY_LIMIT >= 1 /\ MONTH_LIMIT >= 1
        /\ MonthOf(argd[t]) >= 1 /\ AtMonthLimit(argu[t], MonthOf(argd[t]) - 1)
        /\ FirstProjectOfMonth(t)
        /\ Exhausted(argu[t], argd[t] - 1)
        /\ \E x \in usage_logs :
             /\ x.user_id = argu[t] /\ x.log_date = argd[t]
             /\ x.calls_today = 1 /\ x.projects_this_month = 1

CreateKinds == {"create", "create-and-download"}
\* SUM(projects_this_month) over all rows of user u
ProjectsOf(tbl, u) == SumProjects({x \in tbl : x.user_id = u})

\* C20: a create or create-and-download request whose template is not allowed
\* is answered 403 after the two storage calls of the gate, without a call of
\* the monthly operation, and never gets a project (status 200); a request that
\* gets a project has had the monthly operation return true as its third
\* storage call, with the user's projects_this_month one higher than before
\* that call and every calls_today as it was.
C20_TemplateThenMonthly ==
    \A t \in SeqThreads :
        /\ op[t] = "increment_project_and_check_limit" =>
              (req[t].kind \in CreateKinds /\ req[t].template \in ALLOWED_FREE_TEMPLATES)
        /\ (req[t].kind \in CreateKinds /\ req[t].template \notin ALLOWED_FREE_TEMPLATES) =>
              /\ status[t] # 200
              /\ (pc[t] = "idle" /\ status[t] \notin {401, 429, 500}) =>
                    (status[t] = 403 /\ nAcq[t] = 2 /\ usage_logs = pre[t])
        /\ (pc[t] = "idle" /\ req[t].kind \in CreateKinds /\ status[t] = 200) =>
              /\ op[t] = "increment_project_and_check_limit" /\ ret[t] = True
              /\ nAcq[t] = 3
              /\ ProjectsOf(usage_logs, req[t].user) = ProjectsOf(pre[t], req[t].user) + 1
              /\ \A x \in usage_logs :
                   \/ \E y \in pre[t] : y.id = x.id /\ y.calls_today = x.calls_today
                   \/ x \notin pre[t] /\ x.calls_today = 0 /\ x.projects_this_month = 1

\* a create-and-download request for a template that is not allowed was
\* answered 403 for a user who has a project counted from an accepted request
C20_Witness ==
    \E t \in SeqThreads :
        /\ pc[t] = "idle" /\ status[t] = 403
        /\ req[t].kind = "create-and-download" /\ req[t].template = "django"
        /\ ProjectsOf(usage_logs, req[t].user) >= 1

====
